---- MODULE Spec2Model ----
(***************************************************************************)
(* A model of rime's reverse lookup store (ReverseDb) and of the           *)
(* ReverseLookupDictionary facade: src/rime/dict/reverse_lookup_dictionary.cc *)
(*                                                                         *)
(* Strings are sequences of character codes (ASCII), so that std::string's *)
(* ordering, strncmp and atof can be modelled by what they compute.        *)
(***************************************************************************)
EXTENDS Integers, Sequences, FiniteSets, TLC

(***************************************************************************)
(* Characters and string primitives                                        *)
(***************************************************************************)

\* "Rime::Reverse/3.1"
kReverseFormat ==
  <<82, 105, 109, 101, 58, 58, 82, 101, 118, 101, 114, 115, 101, 47, 51, 46, 49>>

\* 3.0
kReverseFormatCompatible == 3

\* "Rime::Reverse/"
kReverseFormatPrefix ==
  <<82, 105, 109, 101, 58, 58, 82, 101, 118, 101, 114, 115, 101, 47>>

\* sizeof(kReverseFormatPrefix) - 1
kReverseFormatPrefixLen == Len(kReverseFormatPrefix)

\* "\x1fstem"
kStemKeySuffix == <<31, 115, 116, 101, 109>>

\* reverse::Metadata::kFormatMaxLength, the size of the format field
kFormatMaxLength == 32

\* the separators handed to boost::algorithm::join
SpaceSep == <<32>>
BarSep == <<32, 124, 32>>
EmptyString == <<>>

Min(a, b) == IF a < b THEN a ELSE b

\* the character of a C string at 0-based offset i; past its end the buffer
\* holds NUL
CharAt(s, i) == IF i < Len(s) THEN s[i + 1] ELSE 0

\* std::string's operator< : lexicographic on the character codes
RECURSIVE StrLess(_, _)
StrLess(a, b) ==
  IF b = <<>> THEN FALSE
  ELSE IF a = <<>> THEN TRUE
  ELSE IF a[1] # b[1] THEN a[1] < b[1]
  ELSE StrLess(Tail(a), Tail(b))

\* the least string of a non-empty set
LeastString(S) == CHOOSE s \in S : \A t \in S \ {s} : StrLess(s, t)

\* the order in which std::set<string> and std::map<string, ...> are iterated
RECURSIVE InOrder(_)
InOrder(S) ==
  IF S = {} THEN <<>>
  ELSE LET m == LeastString(S) IN <<m>> \o InOrder(S \ {m})

\* boost::algorithm::join over a sequence of strings
RECURSIVE Join(_, _)
Join(parts, sep) ==
  IF parts = <<>> THEN EmptyString
  ELSE IF Len(parts) = 1 THEN parts[1]
  ELSE parts[1] \o sep \o Join(Tail(parts), sep)

\* strncmp(s1, s2, n): 0 when the first n characters agree (comparison stops
\* at a NUL), else the difference of the first pair that differs
RECURSIVE StrncmpFrom(_, _, _, _)
StrncmpFrom(s1, s2, i, n) ==
  IF i >= n THEN 0
  ELSE IF CharAt(s1, i) # CharAt(s2, i) THEN CharAt(s1, i) - CharAt(s2, i)
  ELSE IF CharAt(s1, i) = 0 THEN 0
  ELSE StrncmpFrom(s1, s2, i + 1, n)

Strncmp(s1, s2, n) == StrncmpFrom(s1, s2, 0, n)

\* std::strncpy(dst, src, n) into a zeroed field, read back as a C string
Strncpy(src, n) == SubSeq(src, 1, Min(Len(src), n))

IsDigit(c) == c >= 48 /\ c <= 57

\* the longest run of digits of s starting at 0-based offset i
RECURSIVE DigitsFrom(_, _)
DigitsFrom(s, i) ==
  IF IsDigit(CharAt(s, i)) THEN <<CharAt(s, i) - 48>> \o DigitsFrom(s, i + 1)
  ELSE <<>>

RECURSIVE DigitsValue(_)
DigitsValue(ds) ==
  IF ds = <<>> THEN 0
  ELSE DigitsValue(SubSeq(ds, 1, Len(ds) - 1)) * 10 + ds[Len(ds)]

RECURSIVE Pow10(_)
Pow10(n) == IF n = 0 THEN 1 ELSE 10 * Pow10(n - 1)

\* std::atof on the text from 0-based offset `from`: an optional sign, digits,
\* an optional '.' and more digits; conversion stops at the first character
\* that does not fit, and no digits at all give 0.  The value is the exact
\* rational num / den.
Atof(s, from) ==
  LET neg == CharAt(s, from) = 45
      start == IF CharAt(s, from) \in {43, 45} THEN from + 1 ELSE from
      ip == DigitsFrom(s, start)
      dot == CharAt(s, start + Len(ip)) = 46
      fp == IF dot THEN DigitsFrom(s, start + Len(ip) + 1) ELSE <<>>
      mag == DigitsValue(ip) * Pow10(Len(fp)) + DigitsValue(fp)
  IN  [num |-> IF neg THEN 0 - mag ELSE mag, den |-> Pow10(Len(fp))]

(***************************************************************************)
(* The string table (trie) collaborators                                   *)
(***************************************************************************)

kInvalidStringId == -1

\* StringTableBuilder::Build: the distinct strings added get the dense ids
\* 0 .. n-1; a table image is the sequence of its strings by id.  The order
\* in which the trie numbers its keys is the trie's own business: `order`
\* selects one of two numberings.
StringTableImage(added, order) ==
  LET distinct == {added[i] : i \in 1..Len(added)}
      asc == InOrder(distinct)
      n == Len(asc)
  IN  IF order = "asc" THEN asc ELSE [i \in 1..n |-> asc[n + 1 - i]]

\* StringTable::Lookup
TableLookup(image, str) ==
  IF \E i \in 1..Len(image) : image[i] = str
  THEN (CHOOSE i \in 1..Len(image) : image[i] = str) - 1
  ELSE kInvalidStringId

\* StringTable::GetString: the empty string for an id the table does not hold
TableGetString(image, id) ==
  IF id >= 0 /\ id < Len(image) THEN image[id + 1] ELSE EmptyString

(***************************************************************************)
(* ReverseDb::Build, the aggregation (lines 90-116)                        *)
(***************************************************************************)

\* lines 91-96: SyllableId -> name, ids following the syllabary's order
IdToSyllable(syllabary) == InOrder(syllabary)

\* lines 104-108: the names of the ids of a code that the syllabary knows
CurrSyllables(code, id_to_syllable) ==
  LET num_syllables == Len(id_to_syllable)
      known == SelectSeq(code, LAMBDA id : id < num_syllables)
  IN  [k \in 1..Len(known) |-> id_to_syllable[known[k] + 1]]

\* line 109: rev_table[text].insert(pronunciation)
RevTableInsert(rev_table, text, pron) ==
  IF text \in DOMAIN rev_table
  THEN [rev_table EXCEPT ![text] = @ \cup {pron}]
  ELSE rev_table @@ (text :> {pron})

\* lines 103-110: the entries of one page, from the i-th on
RECURSIVE CollectEntries(_, _, _, _)
CollectEntries(entries, i, id_to_syllable, rev_table) ==
  IF i > Len(entries) THEN rev_table
  ELSE CollectEntries(entries, i + 1, id_to_syllable,
         RevTableInsert(rev_table, entries[i].text,
           Join(CurrSyllables(entries[i].code, id_to_syllable), SpaceSep)))

\* the keys of a map<int, ...> in iteration order
RECURSIVE KeysInOrder(_)
KeysInOrder(K) ==
  IF K = {} THEN <<>>
  ELSE LET m == CHOOSE k \in K : \A j \in K : k <= j
       IN  <<m>> \o KeysInOrder(K \ {m})

\* lines 101-114: the pages of the vocabulary at the head of the queue, from
\* the k-th key on; st = [rev_table, queue]
RECURSIVE VisitPages(_, _, _, _, _)
VisitPages(voc, keys, k, id_to_syllable, st) ==
  IF k > Len(keys) THEN st
  ELSE LET page == voc[keys[k]]
           rt == CollectEntries(page.entries, 1, id_to_syllable, st.rev_table)
           q == IF page.next_level # <<>>
                THEN Append(st.queue, page.next_level[1])
                ELSE st.queue
       IN  VisitPages(voc, keys, k + 1, id_to_syllable,
                      [rev_table |-> rt, queue |-> q])

\* lines 99-116: the breadth-first walk over the vocabulary trie
RECURSIVE WalkQueue(_, _)
WalkQueue(st, id_to_syllable) ==
  IF st.queue = <<>> THEN st.rev_table
  ELSE LET curr == Head(st.queue)
           after == VisitPages(curr, KeysInOrder(DOMAIN curr), 1,
                               id_to_syllable, st)
       IN  WalkQueue([after EXCEPT !.queue = Tail(@)], id_to_syllable)

EmptyTable == <<>>

\* lines 90-116
BuildRevTable(syllabary, vocabulary) ==
  WalkQueue([rev_table |-> EmptyTable, queue |-> <<vocabulary>>],
            IdToSyllable(syllabary))

(***************************************************************************)
(* ReverseDb::Build, interning (lines 117-140)                             *)
(***************************************************************************)

\* the pronunciations of a text joined in descending order
RevPairsDescending(rev_table) ==
  LET texts == InOrder(DOMAIN rev_table)
      Desc(q) == [k \in 1..Len(q) |-> q[Len(q) + 1 - k]]
  IN  [i \in 1..Len(texts) |->
         [key |-> texts[i],
          value |-> Join(Desc(InOrder(rev_table[texts[i]])), BarSep)]]

\* lines 124-130: one (key, value) pair per text of rev_table, in map order
RevPairs(rev_table) ==
  LET texts == InOrder(DOMAIN rev_table)
  IN  [i \in 1..Len(texts) |->
         [key |-> texts[i],
          value |-> Join(InOrder(rev_table[texts[i]]), BarSep)]]

\* stems entries interned under the bare text
StemPairsUnmangled(stems) ==
  LET texts == InOrder(DOMAIN stems)
  IN  [i \in 1..Len(texts) |->
         [key |-> texts[i],
          value |-> Join(InOrder(stems[texts[i]]), SpaceSep)]]

\* lines 132-138: one pair per stems entry, the key mangled with the suffix
StemPairs(stems) ==
  LET texts == InOrder(DOMAIN stems)
  IN  [i \in 1..Len(texts) |->
         [key |-> texts[i] \o kStemKeySuffix,
          value |-> Join(InOrder(stems[texts[i]]), SpaceSep)]]

\* lines 119-138: the pairs in the order they are added to the two builders
BuiltPairs(rev_table, stems) == RevPairs(rev_table) \o StemPairs(stems)

\* line 119
EntryCount(rev_table, stems) ==
  Cardinality(DOMAIN rev_table) + Cardinality(DOMAIN stems)

\* lines 127/135 and 139: key_ids[i], known once the key trie is built
KeyIds(pairs, order) ==
  LET image == StringTableImage([i \in 1..Len(pairs) |-> pairs[i].key], order)
  IN  [i \in 1..Len(pairs) |-> TableLookup(image, pairs[i].key)]

\* lines 128/136 and 140: value_ids[i]
ValueIds(pairs, order) ==
  LET image == StringTableImage([i \in 1..Len(pairs) |-> pairs[i].value], order)
  IN  [i \in 1..Len(pairs) |-> TableLookup(image, pairs[i].value)]

\* entries[i] = value_ids[i]: the index filled in the order of insertion
RECURSIVE ScatterByPosition(_, _, _, _)
ScatterByPosition(entries, key_ids, value_ids, i) ==
  IF i > Len(key_ids) THEN entries
  ELSE ScatterByPosition([entries EXCEPT ![i] = value_ids[i]],
                         key_ids, value_ids, i + 1)

\* lines 180-182: entries[key_ids[i]] = value_ids[i], for i = from, from+1, ...
\* (entries is 1-based here: position id + 1 holds entry id)
RECURSIVE Scatter(_, _, _, _)
Scatter(entries, key_ids, value_ids, i) ==
  IF i > Len(key_ids) THEN entries
  ELSE Scatter([entries EXCEPT ![key_ids[i] + 1] = value_ids[i]],
               key_ids, value_ids, i + 1)

\* lines 176-184: Allocate hands out zeroed storage
BuildIndex(pairs, entry_count, order) ==
  [size |-> entry_count,
   at |-> Scatter([i \in 1..entry_count |-> 0],
                  KeyIds(pairs, order), ValueIds(pairs, order), 1)]

\* lines 143-148: the settings blob, empty unless the rule based encoder is on
DictSettingsBlob(settings) ==
  IF settings.present /\ settings.use_rule_based_encoder
  THEN settings.yaml
  ELSE EmptyString

(***************************************************************************)
(* The file and its metadata record                                        *)
(***************************************************************************)

\* reverse::Metadata as Allocate<reverse::Metadata>() hands it out
ZeroMetadata ==
  [format |-> EmptyString,
   dict_file_checksum |-> 0,
   dict_settings |-> EmptyString,
   index |-> [size |-> 0, at |-> <<>>],
   key_trie |-> <<>>,
   value_trie |-> <<>>]

NoFile == [exists |-> FALSE, has_metadata |-> FALSE, metadata |-> ZeroMetadata]

\* MappedFile::Create: a fresh backing buffer with nothing allocated in it
BlankFile == [exists |-> TRUE, has_metadata |-> FALSE, metadata |-> ZeroMetadata]

\* the places where Build can fail, in the order it reaches them
FailPoints ==
  {"none", "create", "metadata", "settings", "index", "key_trie", "value_trie"}

\* the checksum kept in 16 bits
ChecksumWrite16(a) ==
  [stage |-> "metadata", field |-> "dict_file_checksum",
   value |-> a.dict_file_checksum % 65536]

\* line 168; `stage` names the allocation that has to succeed for a write
\* to happen
ChecksumWrite(a) ==
  [stage |-> "metadata", field |-> "dict_file_checksum",
   value |-> a.dict_file_checksum]

\* lines 169-174: only a settings blob that is not empty is copied
SettingsWrites(a) ==
  LET blob == DictSettingsBlob(a.settings)
  IN  IF blob # EmptyString
      THEN <<[stage |-> "settings", field |-> "dict_settings", value |-> blob]>>
      ELSE <<>>

\* lines 176-204: the index array, then the two trie images
DataWrites(a, order) ==
  LET rev_table == BuildRevTable(a.syllabary, a.vocabulary)
      pairs == BuiltPairs(rev_table, a.stems)
      entry_count == EntryCount(rev_table, a.stems)
  IN  <<[stage |-> "index", field |-> "index",
         value |-> BuildIndex(pairs, entry_count, order)],
        [stage |-> "key_trie", field |-> "key_trie",
         value |-> StringTableImage(
                     [i \in 1..Len(pairs) |-> pairs[i].key], order)],
        [stage |-> "value_trie", field |-> "value_trie",
         value |-> StringTableImage(
                     [i \in 1..Len(pairs) |-> pairs[i].value], order)]>>

\* lines 207-208: no allocation is left to fail
FormatWrite(stage) ==
  [stage |-> stage, field |-> "format",
   value |-> Strncpy(kReverseFormat, kFormatMaxLength)]

\* a Build that completes the metadata first
AllWritesTagFirst(a, order) ==
  <<FormatWrite("metadata"), ChecksumWrite(a)>> \o SettingsWrites(a)
  \o DataWrites(a, order)

\* lines 163-208: the writes of a Build that fails nowhere, in program order
AllWrites(a, order) ==
  <<ChecksumWrite(a)>> \o SettingsWrites(a) \o DataWrites(a, order)
  \o <<FormatWrite("format")>>

\* the writes that happen before the allocation `fail` fails
RECURSIVE WritesBefore(_, _)
WritesBefore(writes, fail) ==
  IF writes = <<>> \/ Head(writes).stage = fail THEN <<>>
  ELSE <<Head(writes)>> \o WritesBefore(Tail(writes), fail)

BuildWrites(a, order, fail) ==
  IF fail \in {"create", "metadata"} THEN <<>>
  ELSE WritesBefore(AllWrites(a, order), fail)

RECURSIVE ApplyWrites(_, _)
ApplyWrites(metadata, writes) ==
  IF writes = <<>> THEN metadata
  ELSE ApplyWrites([metadata EXCEPT ![Head(writes).field] = Head(writes).value],
                   Tail(writes))

\* the file a Build leaves behind once Create has succeeded
BuiltFile(a, order, fail) ==
  IF fail = "metadata" THEN BlankFile
  ELSE [exists |-> TRUE, has_metadata |-> TRUE,
        metadata |-> ApplyWrites(ZeroMetadata, BuildWrites(a, order, fail))]

(***************************************************************************)
(* Inputs                                                                  *)
(***************************************************************************)

\* the number of entries of a vocabulary
MaxEntries == 2

TextA == <<97>>
TextB == <<98>>
TextC == <<99>>
\* a text that ends in the stem suffix: "a\x1fstem"
TextAStem == TextA \o kStemKeySuffix

Texts == {TextA, TextB, TextC, TextAStem}

\* the syllabaries: {"x", "y"} and {"y"}
Syllabaries == {{<<120>>, <<121>>}, {<<121>>}}

\* dictionary entries: a text and its code (a sequence of SyllableId)
Entries ==
  {[text |-> TextA, code |-> <<0>>],
   [text |-> TextA, code |-> <<1, 0>>],
   [text |-> TextA, code |-> <<0, 2>>],
   [text |-> TextB, code |-> <<2>>],
   [text |-> TextB, code |-> <<1, 0>>],
   [text |-> TextAStem, code |-> <<1>>]}

RECURSIVE SeqsUpTo(_, _)
SeqsUpTo(S, n) ==
  IF n = 0 THEN {<<>>}
  ELSE LET shorter == SeqsUpTo(S, n - 1)
       IN  shorter \cup {Append(s, e) : s \in shorter, e \in S}

IsPrefix(p, s) == Len(p) <= Len(s) /\ SubSeq(s, 1, Len(p)) = p

\* the vocabulary trie that holds the given entries, each on the page its
\* code leads to; next_level is <<>> for a null pointer
RECURSIVE VocabularyAt(_, _)
VocabularyAt(entries, path) ==
  LET below == SelectSeq(entries,
                 LAMBDA e : IsPrefix(path, e.code) /\ Len(e.code) > Len(path))
      keys == {below[i].code[Len(path) + 1] : i \in 1..Len(below)}
  IN  [k \in keys |->
         LET here == Append(path, k)
         IN  [entries |-> SelectSeq(below, LAMBDA e : e.code = here),
              next_level |->
                IF \E i \in 1..Len(below) :
                     IsPrefix(here, below[i].code) /\ below[i].code # here
                THEN <<VocabularyAt(entries, here)>>
                ELSE <<>>]]

Vocabularies == {VocabularyAt(es, <<>>) : es \in SeqsUpTo(Entries, MaxEntries)}

NoStems == <<>>

\* stems: text -> set of stem strings ("s", "t", "")
StemsTables ==
  {NoStems,
   TextA :> {<<115>>},
   TextA :> {<<116>>, <<115>>},
   (TextA :> {<<116>>}) @@ (TextB :> {<<115>>}),
   TextB :> {EmptyString}}

NoSettings ==
  [present |-> FALSE, use_rule_based_encoder |-> FALSE, yaml |-> EmptyString]

\* DictSettings*: null, or settings whose SaveToStream gives `yaml`
SettingsChoices ==
  {NoSettings,
   [present |-> TRUE, use_rule_based_encoder |-> TRUE, yaml |-> <<121>>],
   [present |-> TRUE, use_rule_based_encoder |-> FALSE, yaml |-> <<121>>]}

\* uint32_t values
Checksums == {0, 1, 2147483647}

TrieOrders == {"asc", "desc"}

\* the arguments of ReverseDb::Build used for the round trip properties
RoundTripArgs ==
  [settings : {NoSettings},
   syllabary : Syllabaries,
   vocabulary : Vocabularies,
   stems : StemsTables,
   dict_file_checksum : {1}]

\* the arguments used for the lifecycle properties
LifecycleArgs ==
  [settings : SettingsChoices,
   syllabary : {{<<120>>, <<121>>}},
   vocabulary : {VocabularyAt(<<[text |-> TextA, code |-> <<0>>],
                                [text |-> TextB, code |-> <<1, 0>>]>>, <<>>)},
   stems : {TextA :> {<<115>>}},
   dict_file_checksum : {2147483647}]

\* the texts looked up in the lifecycle properties
LifecycleTexts == {TextA, TextC}

\* format tags of files that this Build did not write: "Rime::Reverse/3.0",
\* "/2.9", "/3.2", "/4.0", "/4.1", "/4.01", "/" and "Rime::Prism/3.0"
TagCompatible == kReverseFormatPrefix \o <<51, 46, 48>>
TagTooNew == kReverseFormatPrefix \o <<52, 46, 49>>
TagOtherFamily ==
  <<82, 105, 109, 101, 58, 58, 80, 114, 105, 115, 109, 47, 51, 46, 48>>

LifecycleTags == {TagCompatible, TagTooNew, TagOtherFamily}

TagOlder == kReverseFormatPrefix \o <<50, 46, 57>>
TagTwoMinorsUp == kReverseFormatPrefix \o <<51, 46, 50>>
TagNextMajor == kReverseFormatPrefix \o <<52, 46, 48>>
TagPastNextMajor == kReverseFormatPrefix \o <<52, 46, 48, 49>>
TagNoVersion == kReverseFormatPrefix

ForeignTags ==
  {TagCompatible, TagOlder, TagTwoMinorsUp, TagNextMajor, TagTooNew,
   TagPastNextMajor, TagNoVersion, TagOtherFamily}

(***************************************************************************)
(* State                                                                   *)
(***************************************************************************)

VARIABLES
  args,         \* the arguments Build is called with
  trie_order,   \* how the string table builder numbers its strings
  file,         \* the file at file_path()
  foreign,      \* the file was put there by someone else since the last Build
  build_log,    \* the last Build: where it failed and what it wrote, in order
  mapping,      \* MappedFile: whether a file is mapped, and the mapped bytes
  metadata_,    \* ReverseDb::metadata_  : "null", "live" or "stale"
  key_trie_,    \* ReverseDb::key_trie_  : "null", "live" or "stale"
  value_trie_,  \* ReverseDb::value_trie_: "null", "live" or "stale"
  last          \* the last call and what it returned

vars == <<args, trie_order, file, foreign, build_log, mapping, metadata_,
          key_trie_, value_trie_, last>>

Unmapped == [open |-> FALSE, content |-> NoFile]

\* what a pointer into the mapped file becomes when the mapping goes away
Stale(p) == IF p = "null" THEN "null" ELSE "stale"

\* MappedFile::IsOpen
IsOpen == mapping.open

\* `was_open`: the store was open when the call began; `again`: the call is a
\* Load that follows a successful Load of the file as it still is
NoCall ==
  [op |-> "none", text |-> EmptyString, ret |-> FALSE, err |-> "none",
   result |-> EmptyString, value |-> 0, touched |-> FALSE,
   was_open |-> FALSE, again |-> FALSE]

InitWith(argset, orders) ==
  /\ args \in argset
  /\ trie_order \in orders
  /\ file = NoFile
  /\ foreign = FALSE
  /\ build_log = [ran |-> FALSE, fail |-> "none", wrote |-> <<>>]
  /\ mapping = Unmapped
  /\ metadata_ = "null"
  /\ key_trie_ = "null"
  /\ value_trie_ = "null"
  /\ last = NoCall

Init == InitWith(LifecycleArgs, {"asc"})

InitRoundTrip == InitWith(RoundTripArgs, TrieOrders)

(***************************************************************************)
(* ReverseDb::Load (lines 32-69)                                           *)
(***************************************************************************)

\* the window open at its upper end
FormatCompatibleBelowNextMajor(tag) ==
  LET format == Atof(tag, kReverseFormatPrefixLen)
      diff == format.num - kReverseFormatCompatible * format.den
  IN  ~(diff < 0 \/ diff >= 1 * format.den)

\* lines 55-57: the version after the prefix is no less than the compatible
\* version and no more than 1.0 above it.  The differences the model can
\* form are multiples of 1/den with den <= 100, so DBL_EPSILON never decides.
FormatCompatible(tag) ==
  LET format == Atof(tag, kReverseFormatPrefixLen)
      diff == format.num - kReverseFormatCompatible * format.den
  IN  ~(diff < 0 \/ diff > 1 * format.den)

\* lines 43-61: "none" when the mapped file passes every check
LoadError(f) ==
  IF ~f.has_metadata THEN "format"
  ELSE IF Strncmp(f.metadata.format, kReverseFormatPrefix,
                  kReverseFormatPrefixLen) # 0 THEN "format"
  ELSE IF ~FormatCompatible(f.metadata.format) THEN "format"
  ELSE "none"

\* MappedFile::Close as ReverseDb sees it: the mapping goes away, the
\* pointers into it stay
CloseMapping ==
  /\ mapping' = Unmapped
  /\ key_trie_' = Stale(key_trie_)
  /\ value_trie_' = Stale(value_trie_)

\* a Load that does not close the store it finds open
OpenFailsOnOpenStore == ~file.exists \/ IsOpen

\* lines 35-41: the store is closed if open, then OpenReadOnly fails on a
\* missing file
OpenReadOnlyFails == ~file.exists

\* a Load that returns without closing
MappingLeftOpen == [open |-> TRUE, content |-> file]

\* lines 46, 52 and 59: Close() before a format error is returned
MappingAfterReject == Unmapped

LoadCall ==
  [NoCall EXCEPT !.op = "Load", !.was_open = IsOpen,
                 !.again = (last.op = "Load" /\ last.ret /\ IsOpen
                            /\ mapping.content = file)]

Load ==
  /\ UNCHANGED <<args, trie_order, file, foreign, build_log>>
  /\ IF OpenReadOnlyFails
     THEN \* lines 35-41
          /\ CloseMapping
          /\ metadata_' = Stale(metadata_)
          /\ last' = [LoadCall EXCEPT !.err = "open"]
     ELSE IF LoadError(file) # "none"
     THEN \* lines 43-61: metadata_ is assigned, then Close()
          /\ mapping' = MappingAfterReject
          /\ key_trie_' = Stale(key_trie_)
          /\ value_trie_' = Stale(value_trie_)
          /\ metadata_' = IF file.has_metadata THEN "stale" ELSE "null"
          /\ last' = [LoadCall EXCEPT !.err = LoadError(file)]
     ELSE \* lines 63-68
          /\ mapping' = [open |-> TRUE, content |-> file]
          /\ metadata_' = "live"
          /\ key_trie_' = "live"
          /\ value_trie_' = "live"
          /\ last' = [LoadCall EXCEPT !.ret = TRUE]

\* MappedFile::Close, called by the owner of the store
Close ==
  /\ IsOpen
  /\ CloseMapping
  /\ metadata_' = Stale(metadata_)
  /\ last' = [NoCall EXCEPT !.op = "Close", !.ret = TRUE, !.was_open = TRUE]
  /\ UNCHANGED <<args, trie_order, file, foreign, build_log>>

\* ReverseLookupDictionary::Load (line 224): nothing is reloaded when open
DictLoad ==
  IF IsOpen
  THEN /\ last' = [NoCall EXCEPT !.op = "DictLoad", !.ret = TRUE,
                                 !.was_open = TRUE]
       /\ UNCHANGED <<args, trie_order, file, foreign, build_log, mapping,
                      metadata_, key_trie_, value_trie_>>
  ELSE Load

(***************************************************************************)
(* ReverseDb::Build (lines 84-210)                                         *)
(***************************************************************************)

FieldsOf(writes) == [i \in 1..Len(writes) |-> writes[i].field]

\* `fail` is the allocation that fails during this call ("none": no failure).
\* Build is called on a store that is not open (Closed -> Building ->
\* Committed); CopyString can only fail when there is a blob to copy.
Build(fail) ==
  /\ ~IsOpen
  /\ fail = "settings" => DictSettingsBlob(args.settings) # EmptyString
  /\ UNCHANGED <<args, trie_order>>
  /\ build_log' = [ran |-> TRUE, fail |-> fail,
                   wrote |-> FieldsOf(BuildWrites(args, trie_order, fail))]
  /\ key_trie_' = Stale(key_trie_)
  /\ value_trie_' = Stale(value_trie_)
  /\ last' = [NoCall EXCEPT !.op = "Build", !.ret = (fail = "none"),
                            !.was_open = IsOpen]
  /\ IF fail = "create"
     THEN \* lines 157-160: no buffer, the file stays as it was
          /\ UNCHANGED <<file, foreign>>
          /\ mapping' = Unmapped
          /\ metadata_' = Stale(metadata_)
     ELSE /\ file' = BuiltFile(args, trie_order, fail)
          /\ foreign' = FALSE
          /\ mapping' = [open |-> TRUE, content |-> file']
          /\ metadata_' = IF fail = "metadata" THEN "null" ELSE "live"

(***************************************************************************)
(* ReverseDb::Lookup (lines 71-82) and the accessors                       *)
(***************************************************************************)

\* what a read through a stale or null pointer can give: "?"
Garbage == <<63>>

NotFound(touched) == [ret |-> FALSE, result |-> EmptyString, touched |-> touched]

\* lines 75-81 on a mapped, valid metadata record
LookupIn(metadata, text) ==
  LET key_id == TableLookup(metadata.key_trie, text)
  IN  IF key_id = kInvalidStringId THEN {NotFound(TRUE)}
      ELSE IF key_id >= metadata.index.size
      THEN {NotFound(TRUE), [ret |-> TRUE, result |-> Garbage, touched |-> TRUE]}
      ELSE LET value_id == metadata.index.at[key_id + 1]
               result == TableGetString(metadata.value_trie, value_id)
           IN  {[ret |-> result # EmptyString, result |-> result,
                 touched |-> TRUE]}

\* lines 72-81 once the tries are in place and the metadata is mapped
LookupLoaded(metadata, text) ==
  IF metadata.index.size = 0 THEN {NotFound(FALSE)}
  ELSE LookupIn(metadata, text)

\* the outcomes Lookup(text) can have in the current state; `touched` tells
\* whether trie or index data was read
LookupOutcomes(text) ==
  IF key_trie_ = "null" \/ value_trie_ = "null" THEN {NotFound(FALSE)}
  ELSE IF metadata_ # "live" \/ key_trie_ # "live" \/ value_trie_ # "live"
  THEN \* the pointers outlived the mapping: anything may be read
       {NotFound(TRUE), [ret |-> TRUE, result |-> Garbage, touched |-> TRUE]}
  ELSE LookupLoaded(mapping.content.metadata, text)

Unchanged == UNCHANGED <<args, trie_order, file, foreign, build_log, mapping,
                         metadata_, key_trie_, value_trie_>>

Lookup(text) ==
  /\ \E o \in LookupOutcomes(text) :
       last' = [NoCall EXCEPT !.op = "Lookup", !.text = text, !.ret = o.ret,
                              !.result = o.result, !.touched = o.touched,
                              !.was_open = IsOpen]
  /\ Unchanged

\* ReverseLookupDictionary::LookupStems (lines 232-234)
LookupStems(text) ==
  /\ \E o \in LookupOutcomes(text \o kStemKeySuffix) :
       last' = [NoCall EXCEPT !.op = "LookupStems", !.text = text,
                              !.ret = o.ret, !.result = o.result,
                              !.touched = o.touched, !.was_open = IsOpen]
  /\ Unchanged

\* ReverseDb::dict_file_checksum (lines 217-219): the values it can return
ChecksumOutcomes ==
  IF metadata_ = "null" THEN {0}
  ELSE IF metadata_ = "live" THEN {mapping.content.metadata.dict_file_checksum}
  ELSE Checksums

DictFileChecksum ==
  /\ \E v \in ChecksumOutcomes :
       last' = [NoCall EXCEPT !.op = "dict_file_checksum", !.value = v,
                              !.was_open = IsOpen]
  /\ Unchanged

(***************************************************************************)
(* The environment: another writer replaces the file                       *)
(***************************************************************************)

\* no file, a file too short to hold a metadata record, and complete stores
\* that carry the given format tags
ForeignFiles(tags) ==
  {NoFile, BlankFile}
  \cup {[BuiltFile(args, trie_order, "none") EXCEPT !.metadata.format = t] :
          t \in tags}

ReplaceFile(f) ==
  /\ f # file
  /\ file' = f
  /\ foreign' = TRUE
  /\ last' = [NoCall EXCEPT !.op = "ReplaceFile", !.was_open = IsOpen]
  /\ UNCHANGED <<args, trie_order, build_log, mapping, metadata_, key_trie_,
                 value_trie_>>

(***************************************************************************)
(* Specifications                                                          *)
(***************************************************************************)

Next ==
  \/ \E fail \in FailPoints : Build(fail)
  \/ Load
  \/ Close
  \/ DictLoad
  \/ \E text \in LifecycleTexts : Lookup(text)
  \/ \E text \in LifecycleTexts : LookupStems(text)
  \/ DictFileChecksum
  \/ \E f \in ForeignFiles(LifecycleTags) : ReplaceFile(f)

Spec == Init /\ [][Next]_vars

\* build once without failure, load, and query
NextRoundTrip ==
  \/ Build("none")
  \/ Load
  \/ \E text \in Texts : Lookup(text)
  \/ \E text \in Texts : LookupStems(text)
  \/ DictFileChecksum

SpecRoundTrip == InitRoundTrip /\ [][NextRoundTrip]_vars

\* files with any of the format tags are put in place and loaded
InitFormat ==
  InitWith({a \in LifecycleArgs : a.settings = NoSettings}, {"asc"})

NextFormat ==
  \/ Build("none")
  \/ Load
  \/ Close
  \/ DictFileChecksum
  \/ \E f \in ForeignFiles(ForeignTags) : ReplaceFile(f)

SpecFormat == InitFormat /\ [][NextFormat]_vars

\* every checksum with several vocabularies, stems tables and settings
ChecksumArgs ==
  [settings : SettingsChoices,
   syllabary : {{<<120>>, <<121>>}},
   vocabulary : {VocabularyAt(<<>>, <<>>),
                 VocabularyAt(<<[text |-> TextA, code |-> <<0>>],
                                [text |-> TextB, code |-> <<1, 0>>]>>, <<>>)},
   stems : {NoStems, TextA :> {<<115>>}},
   dict_file_checksum : Checksums]

InitChecksum == InitWith(ChecksumArgs, {"asc"})

NextChecksum ==
  \/ Build("none")
  \/ Load
  \/ Close
  \/ DictFileChecksum

SpecChecksum == InitChecksum /\ [][NextChecksum]_vars

(***************************************************************************)
(* Properties of the round trip Build -> Load -> Lookup                    *)
(***************************************************************************)

\* the store is loaded: Load succeeded and nothing closed it since
Loaded == metadata_ = "live" /\ key_trie_ = "live" /\ value_trie_ = "live"

\* the entries of a vocabulary trie, at any depth
RECURSIVE AllEntries(_)
AllEntries(voc) ==
  UNION {{voc[k].entries[i] : i \in 1..Len(voc[k].entries)}
         \cup (IF voc[k].next_level # <<>>
               THEN AllEntries(voc[k].next_level[1])
               ELSE {}) : k \in DOMAIN voc}

\* the pronunciation strings the vocabulary contributes for a text
Contributed(text) ==
  {Join(CurrSyllables(e.code, IdToSyllable(args.syllabary)), SpaceSep) :
     e \in {x \in AllEntries(args.vocabulary) : x.text = text}}

\* the strings of S as the one strictly increasing sequence
Sorted(S) ==
  CHOOSE q \in [1..Cardinality(S) -> S] :
    \A i, j \in 1..Cardinality(S) : i < j => StrLess(q[i], q[j])

ExpectedValue(text) == Join(Sorted(Contributed(text)), BarSep)

\* the text is the key under which a stems entry is stored
IsStemKey(text) == \E t \in DOMAIN args.stems : text = t \o kStemKeySuffix

\* the texts of the vocabulary
VocabularyTexts == {e.text : e \in AllEntries(args.vocabulary)}

\* C1 as stated: after Build and Load, Lookup(text) succeeds for every text
\* that has a vocabulary entry, and returns its distinct pronunciations in
\* sorted order joined by " | ".
C1_RoundTripEveryText ==
  (last.op = "Lookup" /\ Loaded /\ Contributed(last.text) # {})
    => (last.ret /\ last.result = ExpectedValue(last.text))

\* C1 amended: after Build and Load, for every text that has a vocabulary
\* entry and is not the suffixed key of a stems entry, Lookup(text) returns
\* the distinct pronunciations in sorted order joined by " | ", each once,
\* when that joined value is not empty, and not-found when it is empty.
C1_RoundTrip ==
  (last.op = "Lookup" /\ Loaded /\ Contributed(last.text) # {}
   /\ ~IsStemKey(last.text))
    => IF ExpectedValue(last.text) # EmptyString
       THEN last.ret /\ last.result = ExpectedValue(last.text)
       ELSE ~last.ret

\* a text with two pronunciations was looked up and found
C1_Witness ==
  /\ last.op = "Lookup" /\ Loaded /\ last.ret
  /\ Cardinality(Contributed(last.text)) = 2
  /\ ~IsStemKey(last.text)

\* the store built from the same vocabulary and no stems
FileWithoutStems ==
  BuiltFile([args EXCEPT !.stems = NoStems], trie_order, "none")

JoinedStems(text) == Join(Sorted(args.stems[text]), SpaceSep)

\* C3 as stated: LookupStems(t) returns the joined stems of t, not-found when
\* t has none, and Lookup(t) returns what it returns without any stems.
C3_StemIsolationEveryText ==
  /\ (last.op = "LookupStems" /\ Loaded)
       => IF last.text \in DOMAIN args.stems
          THEN last.ret /\ last.result = JoinedStems(last.text)
          ELSE ~last.ret
  /\ (last.op = "Lookup" /\ Loaded)
       => LET o == LookupLoaded(FileWithoutStems.metadata, last.text)
          IN  \E x \in o : x.ret = last.ret /\ x.result = last.result

\* C3 amended: LookupStems(t) returns the joined stems of t when t has stems
\* and their joined string is not empty, and not-found when the joined string
\* is empty or when t has no stems and t + suffix is no vocabulary text;
\* Lookup(t) returns what it returns without any stems for every t that is
\* not the suffixed key of a stems entry.
C3_StemIsolation ==
  /\ (last.op = "LookupStems" /\ Loaded)
       => IF last.text \in DOMAIN args.stems
          THEN IF JoinedStems(last.text) # EmptyString
               THEN last.ret /\ last.result = JoinedStems(last.text)
               ELSE ~last.ret
          ELSE (last.text \o kStemKeySuffix \notin VocabularyTexts) => ~last.ret
  /\ (last.op = "Lookup" /\ Loaded /\ ~IsStemKey(last.text))
       => LET o == LookupLoaded(FileWithoutStems.metadata, last.text)
          IN  \E x \in o : x.ret = last.ret /\ x.result = last.result

\* the stems of a text that also has a pronunciation were looked up
C3_Witness ==
  /\ last.op = "LookupStems" /\ Loaded /\ last.ret
  /\ last.text \in DOMAIN args.stems
  /\ last.text \in VocabularyTexts
  /\ Cardinality(args.stems[last.text]) = 2

\* the pairs Build interned, and the ids the built tries give them
PairsBuilt ==
  BuiltPairs(BuildRevTable(args.syllabary, args.vocabulary), args.stems)

KeyIdOf(pair) == TableLookup(file.metadata.key_trie, pair.key)
ValueIdOf(pair) == TableLookup(file.metadata.value_trie, pair.value)

Built == build_log.ran /\ build_log.fail = "none" /\ ~foreign

PairIndices == 1..Len(PairsBuilt)

\* C10 as stated: after a successful Build the index has length entry_count,
\* the key ids of the built pairs are pairwise distinct and cover
\* [0, entry_count), and index[key_id] = value_id for every built pair.
C10_IndexEveryInput ==
  Built =>
    /\ file.metadata.index.size =
         Cardinality(VocabularyTexts) + Cardinality(DOMAIN args.stems)
    /\ Len(file.metadata.index.at) = file.metadata.index.size
    /\ \A i, j \in PairIndices :
         i # j => KeyIdOf(PairsBuilt[i]) # KeyIdOf(PairsBuilt[j])
    /\ {KeyIdOf(PairsBuilt[i]) : i \in PairIndices} =
         0..(file.metadata.index.size - 1)
    /\ \A i \in PairIndices :
         file.metadata.index.at[KeyIdOf(PairsBuilt[i]) + 1] =
           ValueIdOf(PairsBuilt[i])

\* no vocabulary text is the suffixed key of a stems entry
NoKeyCollision == \A t \in VocabularyTexts : ~IsStemKey(t)

\* C10 amended: after a successful Build the index has length entry_count and
\* every key id of the key trie is a position of it; when no vocabulary text
\* equals a stems text plus the suffix, the key ids of the built pairs are
\* pairwise distinct, cover [0, entry_count), and index[key_id] = value_id
\* for every built pair; otherwise index[key_id] is the value id of the pair
\* added last under that key.
C10_Index ==
  Built =>
    /\ file.metadata.index.size =
         Cardinality(VocabularyTexts) + Cardinality(DOMAIN args.stems)
    /\ Len(file.metadata.index.at) = file.metadata.index.size
    /\ \A i \in PairIndices :
         /\ KeyIdOf(PairsBuilt[i]) >= 0
         /\ KeyIdOf(PairsBuilt[i]) < file.metadata.index.size
    /\ NoKeyCollision =>
         /\ \A i, j \in PairIndices :
              i # j => KeyIdOf(PairsBuilt[i]) # KeyIdOf(PairsBuilt[j])
         /\ {KeyIdOf(PairsBuilt[i]) : i \in PairIndices} =
              0..(file.metadata.index.size - 1)
    /\ \A i \in PairIndices :
         (\A j \in PairIndices : j > i => PairsBuilt[j].key # PairsBuilt[i].key)
           => file.metadata.index.at[KeyIdOf(PairsBuilt[i]) + 1] =
                ValueIdOf(PairsBuilt[i])

\* a store of three pairs, one of them a stems entry, two sharing a value
C10_Witness ==
  /\ Built /\ NoKeyCollision
  /\ file.metadata.index.size = 3
  /\ Len(file.metadata.value_trie) = 2
  /\ DOMAIN args.stems # {}
  /\ trie_order = "desc"

(***************************************************************************)
(* Properties of the lifecycle                                             *)
(***************************************************************************)

Before(fields, a, b) ==
  \E i, j \in 1..Len(fields) : i < j /\ fields[i] = a /\ fields[j] = b

\* the file is what the last Build left, and that Build got as far as
\* creating the buffer and stopped before the format tag
LeftUncommitted ==
  /\ build_log.ran /\ ~foreign
  /\ build_log.fail \notin {"none", "create"}

\* C2: Build writes the format tag after the checksum, the settings blob,
\* the index and both trie images; a Build that returns failure has not
\* written the tag; and Load of the file such a Build left behind fails
\* with a format error.
C2_CommitAtomicity ==
  /\ (build_log.ran /\ \E i \in 1..Len(build_log.wrote) :
                         build_log.wrote[i] = "format")
       => /\ build_log.wrote[Len(build_log.wrote)] = "format"
          /\ \A f \in {"dict_file_checksum", "index", "key_trie", "value_trie"} :
               Before(build_log.wrote, f, "format")
          /\ DictSettingsBlob(args.settings) # EmptyString
               => Before(build_log.wrote, "dict_settings", "format")
  /\ (build_log.ran /\ build_log.fail # "none")
       => \A i \in 1..Len(build_log.wrote) : build_log.wrote[i] # "format"
  /\ last.op = "Build" => (last.ret <=> build_log.fail = "none")
  /\ (last.op = "Load" /\ LeftUncommitted)
       => (~last.ret /\ last.err = "format")

\* the file of a Build that failed at the value trie, the last allocation,
\* was loaded and rejected
C2_Witness ==
  /\ last.op = "Load" /\ LeftUncommitted /\ build_log.fail = "value_trie"
  /\ ~last.ret /\ last.err = "format"
  /\ file.metadata.key_trie # <<>>

\* C4: while the store is not open, Lookup returns not-found for every text
\* and reads no trie or index data.
C4_NotFoundWhenNotOpen ==
  (last.op = "Lookup" /\ ~IsOpen) => (~last.ret /\ ~last.touched)

\* the format tag does not begin with "Rime::Reverse/"
BadPrefix(tag) ==
  \/ Len(tag) < Len(kReverseFormatPrefix)
  \/ SubSeq(tag, 1, Len(kReverseFormatPrefix)) # kReverseFormatPrefix

\* C5: Load of a file without a metadata record, with a tag of another
\* family or of an incompatible version returns failure and leaves the
\* store closed, whether or not the store was open before the call.
C5_FormatRejection ==
  (/\ last.op = "Load"
   /\ file.exists
   /\ \/ ~file.has_metadata
      \/ BadPrefix(file.metadata.format)
      \/ file.metadata.format = TagTooNew)
    => (~last.ret /\ last.err = "format" /\ ~IsOpen)

\* a store that was open was reloaded from a file of another family
C5_Witness ==
  /\ last.op = "Load" /\ last.was_open /\ ~last.ret /\ ~IsOpen
  /\ file.metadata.format = TagOtherFamily
  /\ key_trie_ = "stale"

\* the versions the tags carry, in hundredths
TagHundredths ==
  (kReverseFormat :> 310) @@ (TagCompatible :> 300) @@ (TagOlder :> 290)
  @@ (TagTwoMinorsUp :> 320) @@ (TagNextMajor :> 400) @@ (TagTooNew :> 410)
  @@ (TagPastNextMajor :> 401) @@ (TagNoVersion :> 0)

LoadedWellPrefixed ==
  /\ last.op = "Load"
  /\ file.exists /\ file.has_metadata
  /\ ~BadPrefix(file.metadata.format)

\* C6 as stated: a well-prefixed tag loads only if its version is within one
\* minor increment above the compatible version 3.0.
C6_VersionWindowOneMinor ==
  LoadedWellPrefixed
    => (last.ret <=> (TagHundredths[file.metadata.format] >= 300
                      /\ TagHundredths[file.metadata.format] <= 310))

\* C6 amended: a well-prefixed tag loads exactly when its version is no less
\* than the compatible version 3.0 and no more than 1.0 above it.
C6_VersionWindow ==
  LoadedWellPrefixed
    => (last.ret <=> (TagHundredths[file.metadata.format] >= 300
                      /\ TagHundredths[file.metadata.format] <= 400))

\* a file tagged 3.2 was loaded
C6_Witness ==
  /\ LoadedWellPrefixed /\ last.ret
  /\ file.metadata.format = TagTwoMinorsUp

\* C7: a Load that follows a successful Load of the unchanged file succeeds,
\* leaves the store open, and every Lookup, LookupStems and
\* dict_file_checksum gives what it gave before.
C7_IdempotentReload ==
  [][(/\ last.op = "Load" /\ last.ret /\ IsOpen
      /\ mapping.content = file
      /\ Load)
       => /\ last'.ret
          /\ IsOpen'
          /\ \A t \in Texts :
               /\ LookupOutcomes(t)' = LookupOutcomes(t)
               /\ LookupOutcomes(t \o kStemKeySuffix)' =
                    LookupOutcomes(t \o kStemKeySuffix)
          /\ ChecksumOutcomes' = ChecksumOutcomes]_vars

\* Load ran a second time on the unchanged file
C7_Witness ==
  /\ last.op = "Load" /\ last.again /\ last.ret /\ Loaded
  /\ mapping.content = file

\* C8: the checksum handed to a successful Build is what dict_file_checksum
\* returns once the file is loaded.
C8_ChecksumPassthrough ==
  (last.op = "dict_file_checksum" /\ Loaded /\ Built)
    => last.value = args.dict_file_checksum

\* the largest checksum was read back from a store with stems and settings
C8_Witness ==
  /\ last.op = "dict_file_checksum" /\ Loaded /\ Built
  /\ last.value = 2147483647
  /\ args.stems # NoStems
  /\ file.metadata.dict_settings # EmptyString

\* C9: while the store is not open, dict_file_checksum returns 0.
C9_ZeroWhenNotOpen ==
  (last.op = "dict_file_checksum" /\ ~IsOpen) => last.value = 0

====
